---- MODULE Spec2Model ----
(***************************************************************************)
(* Passwordless authentication and session lifecycle of bibus:             *)
(* AuthController (register, requestToken, login, logout) and the          *)
(* onRequest authentication hook of fastify-app.ts.                        *)
(*                                                                         *)
(* The persistent store is the only shared state.  Every handler is split  *)
(* at the awaits of its source: between two awaits another request may     *)
(* run.  The entity classes (User, UserEmail, TempToken, JwtToken) and     *)
(* JWTToken.sign/verify are not part of the sources at hand; their effects *)
(* are taken from the specification's data model.                          *)
(***************************************************************************)
EXTENDS Integers, Sequences, FiniteSets, TLC

\* ---------------------------------------------------------------- bounds
MaxUsers == 2
MaxEmails == 3
MaxTempTokens == 2
MaxJwtTokens == 2

Emails == {"a@x", "b@x"}
Procs == {1, 2}

\* config.jwtToken.secret, the process-wide signing key
Secret == "secret"

VARIABLES
  nUsers,      \* number of User rows; ids are 1..nUsers
  userEmails,  \* UserEmail rows: [value, main, user]; id = index
  tempTokens,  \* TempToken rows: [used, userEmail]; id = index
  jwtTokens,   \* JwtToken rows: [active, user]; id = index
  sent,        \* messages handed to emailSender.sendEmail: [token, to]
  procs,       \* per in-flight auth request: position and locals (created:
               \* the id of the temp token the request made, token: the id it
               \* read back with lastTempToken)
  resp,        \* the last answer, when an auth handler gave it
  req,         \* the last answer, when the authenticated child server gave it
               \* (both are cleared when the next request begins)
  loginsBy,    \* history: number of successful logins per temp token id
  registered,  \* history: number of successful register calls per email
  revokedBy    \* history: credential ids presented by completed logouts

vars == <<nUsers, userEmails, tempTokens, jwtTokens, sent, procs, resp, req,
          loginsBy, registered, revokedBy>>

db == <<nUsers, userEmails, tempTokens, jwtTokens>>
hist == <<loginsBy, registered, revokedBy>>

\* ------------------------------------------------------------ data shapes
NoJwt == [kind |-> "empty", id |-> 0, userId |-> 0, userEmail |-> "", key |-> ""]
Garbage == [kind |-> "garbage", id |-> 0, userId |-> 0, userEmail |-> "", key |-> ""]

Idle == [pc |-> "idle", email |-> "", tempToken |-> 0, user |-> 0,
         userEmail |-> 0, created |-> 0, token |-> 0]

NoResp == [op |-> "", email |-> "", tempToken |-> 0, status |-> "",
           error |-> "", token |-> NoJwt]

NoHeader == [present |-> FALSE, parts |-> <<>>]

NoReq == [url |-> [route |-> "", id |-> "", query |-> ""], header |-> NoHeader,
          gate |-> "", gateError |-> "", userId |-> 0, handler |-> "",
          status |-> "", error |-> ""]

\* error messages of the sources
ErrEmailExists == "User with email already exist"
ErrNoUnusedToken == "There is no unused token with id"
ErrPermissionDenied == "Permission denied"
ErrUserMustBe == "User must be"
ErrSomethingWrong == "Something went wrong"
ErrNoToken == "There is no token"
ErrNoJwt == "No JWT Token"
ErrDelivery == "sendEmail rejected"
ErrInvalidSignature == "InvalidSignature"

\* ------------------------------------------------------- store operations
\* UserEmail.checkEmailExist(value)
checkEmailExist(value) ==
  \E i \in DOMAIN userEmails : userEmails[i].value = value

\* ids of the email rows with this value, main or not
AnyEmailRows(value) ==
  {i \in DOMAIN userEmails : userEmails[i].value = value}

\* ids of the main-email rows with this value
MainEmailRows(value) ==
  {i \in DOMAIN userEmails : userEmails[i].value = value /\ userEmails[i].main}

\* user.lastTempToken(): the most recently created token of the user (0: none)
lastTempToken(u) ==
  LET ts == {t \in DOMAIN tempTokens : userEmails[tempTokens[t].userEmail].user = u}
  IN IF ts = {} THEN 0 ELSE CHOOSE t \in ts : \A s \in ts : s <= t

\* the credentials of a user
JwtTokensOf(u) == {c \in DOMAIN jwtTokens : jwtTokens[c].user = u}

\* user.lastJwtToken(): the most recently created of the credentials rows
\* that belong to the user (0: none)
lastJwtToken(rows, u) ==
  LET cs == {c \in DOMAIN rows : rows[c].user = u}
  IN IF cs = {} THEN 0 ELSE CHOOSE c \in cs : \A d \in cs : d <= c

\* JWTToken.sign / JWTToken.verify
sign(key, claims) ==
  [kind |-> "jwt", id |-> claims.id, userId |-> claims.userId,
   userEmail |-> claims.userEmail, key |-> key]

verify(key, token) == token.kind = "jwt" /\ token.key = key

Init ==
  /\ nUsers = 0
  /\ userEmails = <<>>
  /\ tempTokens = <<>>
  /\ jwtTokens = <<>>
  /\ sent = <<>>
  /\ procs = [p \in Procs |-> Idle]
  /\ resp = NoResp
  /\ req = NoReq
  /\ loginsBy = <<>>
  /\ registered = [e \in Emails |-> 0]
  /\ revokedBy = {}

\* --------------------------------------------------------------- helpers
Pending(pcs) == Cardinality({q \in Procs : procs[q].pc \in pcs})

\* the code never looks inside an email value, so the values are
\* interchangeable: a value new to the store is drawn in the order of
\* EmailOrder (one that is in the store, or unknown to it, is drawn freely)
EmailOrder == <<"a@x", "b@x">>

NextEmail(e) ==
  \A i, j \in DOMAIN EmailOrder :
    i < j /\ EmailOrder[j] = e =>
      \/ checkEmailExist(EmailOrder[i])
      \/ \E q \in Procs : procs[q].pc = "reg_save" /\ procs[q].email = EmailOrder[i]

\* a new request takes the first free slot
FreeSlot(p) ==
  /\ procs[p].pc = "idle"
  /\ \A q \in Procs : q < p => procs[q].pc # "idle"

\* a request that begins clears the last answer
Begin == resp' = NoResp /\ req' = NoReq

Reply(op, email, tempToken, status, error, token) ==
  /\ resp' = [op |-> op, email |-> email, tempToken |-> tempToken,
              status |-> status, error |-> error, token |-> token]
  /\ req' = NoReq

\* ------------------------------------------------------------- register
\* register, first await: UserEmail.checkEmailExist
RegCheck(p, e) ==
  /\ FreeSlot(p)
  /\ IF checkEmailExist(e)
       THEN /\ Reply("register", e, 0, "error", ErrEmailExists, NoJwt)
            /\ UNCHANGED procs
       ELSE /\ NextEmail(e)
            /\ nUsers + Pending({"reg_save"}) < MaxUsers
            /\ Len(userEmails) + Pending({"reg_save"}) < MaxEmails
            /\ Len(tempTokens) + Pending({"reg_save", "rt_create"}) < MaxTempTokens
            /\ procs' = [procs EXCEPT ![p] = [Idle EXCEPT !.pc = "reg_save", !.email = e]]
            /\ Begin
  /\ UNCHANGED <<db, sent, hist>>

\* User.registerUser(email) with an email that is not marked main
registerUserSecondary(e) ==
  /\ nUsers' = nUsers + 1
  /\ userEmails' = Append(userEmails, [value |-> e, main |-> FALSE, user |-> nUsers + 1])
  /\ tempTokens' = Append(tempTokens, [used |-> FALSE, userEmail |-> Len(userEmails) + 1])

\* User.registerUser(email), saved: a user, its main email and a first,
\* unused temp token
registerUser(e) ==
  /\ nUsers' = nUsers + 1
  /\ userEmails' = Append(userEmails, [value |-> e, main |-> TRUE, user |-> nUsers + 1])
  /\ tempTokens' = Append(tempTokens, [used |-> FALSE, userEmail |-> Len(userEmails) + 1])

\* register, second and third await: User.registerUser and user.save
RegSave(p) ==
  /\ procs[p].pc = "reg_save"
  /\ registerUser(procs[p].email)
  /\ loginsBy' = Append(loginsBy, 0)
  /\ procs' = [procs EXCEPT ![p].pc = "reg_token", ![p].user = nUsers + 1,
                            ![p].userEmail = Len(userEmails) + 1,
                            ![p].created = Len(tempTokens) + 1]
  /\ UNCHANGED <<jwtTokens, sent, resp, req, registered, revokedBy>>

\* user.lastTempToken() and user.mainEmail()
RegLastToken(p) ==
  /\ procs[p].pc = "reg_token"
  /\ IF lastTempToken(procs[p].user) = 0 \/ procs[p].userEmail = 0
       THEN /\ Reply("register", procs[p].email, 0, "error", ErrSomethingWrong, NoJwt)
            /\ procs' = [procs EXCEPT ![p] = Idle]
       ELSE /\ procs' = [procs EXCEPT ![p].pc = "reg_send",
                                      ![p].token = lastTempToken(procs[p].user)]
            /\ UNCHANGED <<resp, req>>
  /\ UNCHANGED <<db, sent, hist>>

\* emailSender.sendEmail, then the success response
RegSendRollback(p) ==
  /\ procs[p].pc = "reg_send"
  /\ \E delivered \in BOOLEAN :
       IF delivered
         THEN /\ sent' = Append(sent, [token |-> procs[p].token, to |-> procs[p].email])
              /\ Reply("register", procs[p].email, 0, "ok", "", NoJwt)
              /\ registered' = [registered EXCEPT ![procs[p].email] = @ + 1]
              /\ UNCHANGED tempTokens
         ELSE /\ Reply("register", procs[p].email, 0, "error", ErrDelivery, NoJwt)
              /\ tempTokens' = [tempTokens EXCEPT ![procs[p].created].used = TRUE]
              /\ UNCHANGED <<sent, registered>>
  /\ procs' = [procs EXCEPT ![p] = Idle]
  /\ UNCHANGED <<nUsers, userEmails, jwtTokens, loginsBy, revokedBy>>

RegSend(p) ==
  /\ procs[p].pc = "reg_send"
  /\ \E delivered \in BOOLEAN :
       IF delivered
         THEN /\ sent' = Append(sent, [token |-> procs[p].token, to |-> procs[p].email])
              /\ Reply("register", procs[p].email, 0, "ok", "", NoJwt)
              /\ registered' = [registered EXCEPT ![procs[p].email] = @ + 1]
         ELSE /\ Reply("register", procs[p].email, 0, "error", ErrDelivery, NoJwt)
              /\ UNCHANGED <<sent, registered>>
  /\ procs' = [procs EXCEPT ![p] = Idle]
  /\ UNCHANGED <<db, loginsBy, revokedBy>>

\* ---------------------------------------------------------- requestToken
\* UserEmail.findOne({main: true, value})
RtFind(p, e) ==
  /\ FreeSlot(p)
  /\ IF MainEmailRows(e) = {}
       THEN /\ Reply("requestToken", e, 0, "ok", "", NoJwt)
            /\ UNCHANGED procs
       ELSE /\ Len(tempTokens) + Pending({"reg_save", "rt_create"}) < MaxTempTokens
            /\ \E i \in MainEmailRows(e) :
                 procs' = [procs EXCEPT ![p] = [Idle EXCEPT !.pc = "rt_create", !.email = e,
                                                !.user = userEmails[i].user,
                                                !.userEmail = i]]
            /\ Begin
  /\ UNCHANGED <<db, sent, hist>>

\* user.createNewToken(): a new unused token on the user's main email; the
\* earlier tokens stay as they are
createNewToken(mainEmail) ==
  tempTokens' = Append(tempTokens, [used |-> FALSE, userEmail |-> mainEmail])

\* requestToken, second await: user.createNewToken
RtCreate(p) ==
  /\ procs[p].pc = "rt_create"
  /\ createNewToken(procs[p].userEmail)
  /\ loginsBy' = Append(loginsBy, 0)
  /\ procs' = [procs EXCEPT ![p].pc = "rt_token", ![p].created = Len(tempTokens) + 1]
  /\ UNCHANGED <<nUsers, userEmails, jwtTokens, sent, resp, req, registered, revokedBy>>

\* user.lastTempToken()
RtLastToken(p) ==
  /\ procs[p].pc = "rt_token"
  /\ IF lastTempToken(procs[p].user) = 0
       THEN /\ Reply("requestToken", procs[p].email, 0, "error", ErrNoToken, NoJwt)
            /\ procs' = [procs EXCEPT ![p] = Idle]
       ELSE /\ procs' = [procs EXCEPT ![p].pc = "rt_send",
                                      ![p].token = lastTempToken(procs[p].user)]
            /\ UNCHANGED <<resp, req>>
  /\ UNCHANGED <<db, sent, hist>>

\* emailSender.sendEmail to user.mainEmail().value, then the success response
RtSend(p) ==
  /\ procs[p].pc = "rt_send"
  /\ \E delivered \in BOOLEAN :
       IF delivered
         THEN /\ sent' = Append(sent, [token |-> procs[p].token, to |-> procs[p].email])
              /\ Reply("requestToken", procs[p].email, 0, "ok", "", NoJwt)
         ELSE /\ Reply("requestToken", procs[p].email, 0, "error", ErrDelivery, NoJwt)
              /\ UNCHANGED sent
  /\ procs' = [procs EXCEPT ![p] = Idle]
  /\ UNCHANGED <<db, hist>>

\* ----------------------------------------------------------------- login
\* the where clause of TempToken.findOne in login
LoginMatchAnyEmail(tid, e) ==
  /\ tid \in DOMAIN tempTokens
  /\ ~tempTokens[tid].used
  /\ userEmails[tempTokens[tid].userEmail].value = e

\* the where clause, accepting only the newest token of the user
LoginMatchLastOnly(tid, e) ==
  /\ tid \in DOMAIN tempTokens
  /\ ~tempTokens[tid].used
  /\ userEmails[tempTokens[tid].userEmail].value = e
  /\ userEmails[tempTokens[tid].userEmail].main
  /\ tid = lastTempToken(userEmails[tempTokens[tid].userEmail].user)

LoginMatch(tid, e) ==
  /\ tid \in DOMAIN tempTokens
  /\ ~tempTokens[tid].used
  /\ userEmails[tempTokens[tid].userEmail].value = e
  /\ userEmails[tempTokens[tid].userEmail].main

\* login up to the check of the token found
LoginFind(p, e, tid) ==
  /\ FreeSlot(p)
  /\ IF LoginMatch(tid, e)
       THEN /\ Len(jwtTokens) + Pending({"login_save"}) < MaxJwtTokens
            /\ procs' = [procs EXCEPT ![p] = [Idle EXCEPT !.pc = "login_save", !.email = e,
                                  !.tempToken = tid,
                                  !.user = userEmails[tempTokens[tid].userEmail].user,
                                  !.userEmail = tempTokens[tid].userEmail]]
            /\ Begin
       ELSE /\ Reply("login", e, tid, "error", ErrNoUnusedToken, NoJwt)
            /\ UNCHANGED procs
  /\ UNCHANGED <<db, sent, hist>>

\* the claims login signs: the user's last credential, the user, its main email
loginClaimsFirstJwt(rows, u, e) ==
  LET cs == {c \in DOMAIN rows : rows[c].user = u}
  IN [id |-> IF cs = {} THEN 0 ELSE CHOOSE c \in cs : \A d \in cs : c <= d,
      userId |-> u, userEmail |-> e]

loginClaims(rows, u, e) ==
  [id |-> lastJwtToken(rows, u), userId |-> u, userEmail |-> e]

\* user.loginByTempToken(tempToken) that keeps one credential per user: a
\* second login writes over the credential of the first
loginByTempTokenReuse(u, tid) ==
  /\ tempTokens' = [tempTokens EXCEPT ![tid].used = TRUE]
  /\ jwtTokens' = IF JwtTokensOf(u) = {}
                    THEN Append(jwtTokens, [active |-> TRUE, user |-> u])
                    ELSE jwtTokens

\* user.loginByTempToken(tempToken) that uses up every token of the user
loginByTempTokenAll(u, tid) ==
  /\ tempTokens' = [t \in DOMAIN tempTokens |->
                      IF userEmails[tempTokens[t].userEmail].user = u
                        THEN [tempTokens[t] EXCEPT !.used = TRUE]
                        ELSE tempTokens[t]]
  /\ jwtTokens' = Append(jwtTokens, [active |-> TRUE, user |-> u])

\* user.loginByTempToken(tempToken), saved: the token is used, and the user
\* has one more credential, active
loginByTempToken(u, tid) ==
  /\ tempTokens' = [tempTokens EXCEPT ![tid].used = TRUE]
  /\ jwtTokens' = Append(jwtTokens, [active |-> TRUE, user |-> u])

\* login after the token was found: user.loginByTempToken, user.save,
\* user.lastJwtToken and the signed response
LoginSave(p) ==
  /\ procs[p].pc = "login_save"
  /\ loginByTempToken(procs[p].user, procs[p].tempToken)
  /\ LET jwtToken == lastJwtToken(jwtTokens', procs[p].user)
     IN IF jwtToken = 0
          THEN Reply("login", procs[p].email, procs[p].tempToken, "error", ErrNoJwt, NoJwt)
          ELSE Reply("login", procs[p].email, procs[p].tempToken, "ok", "",
                     sign(Secret, loginClaims(jwtTokens', procs[p].user, procs[p].email)))
  /\ loginsBy' = [loginsBy EXCEPT ![procs[p].tempToken] = @ + 1]
  /\ procs' = [procs EXCEPT ![p] = Idle]
  /\ UNCHANGED <<nUsers, userEmails, sent, registered, revokedBy>>

\* ------------------------------------------------------ the inbound gate
\* request.url as the sequence of its pieces
urlParts(url) ==
  LET path == IF url.route = "logout" THEN <<"/auth/logout">>
              ELSE IF url.route = "me" THEN <<"/user/me">>
              ELSE IF url.route = "list" THEN <<"/user/">>
              ELSE <<"/user/", url.id>>
  IN IF url.query = "" THEN path ELSE path \o <<"?", url.query>>

\* String.prototype.includes on the pieces
includes(parts, word) == \E i \in DOMAIN parts : parts[i] = word

\* the allow-list test of the hook
allowListed(url) ==
  includes(urlParts(url), "documentation") \/ includes(urlParts(url), "health")

\* headerToken.split("Bearer ")[1]; the header is held as the pieces between
\* the occurrences of "Bearer "
bearerToken(header) == IF Len(header.parts) >= 2 THEN header.parts[2] ELSE NoJwt

\* !headerToken : undefined or the empty string
headerMissing(header) == ~header.present \/ header.parts = <<NoJwt>>

\* an active credential with this id, whoever its owner is
jwtTokenAnyUser(u, id) == id \in DOMAIN jwtTokens /\ jwtTokens[id].active

\* user.jwtTokenById(id) alone, whatever the credential's active flag
jwtTokenExists(u, id) == id \in JwtTokensOf(u)

\* user.jwtTokenById(id) && jwtToken.active()
jwtTokenActive(u, id) == id \in JwtTokensOf(u) /\ jwtTokens[id].active

\* the onRequest hook: what it throws, or the userId it sets
Gate(url, header) ==
  LET token == bearerToken(header)
      Deny == [gate |-> "rejected", gateError |-> ErrPermissionDenied, userId |-> 0]
  IN IF allowListed(url)
       THEN [gate |-> "skipped", gateError |-> "", userId |-> 0]
     ELSE IF headerMissing(header) THEN Deny
     ELSE IF token.kind = "empty" THEN Deny
     ELSE IF ~verify(Secret, token)
       THEN [gate |-> "rejected", gateError |-> ErrInvalidSignature, userId |-> 0]
     ELSE IF token.userId \notin 1..nUsers THEN Deny
     ELSE IF ~jwtTokenActive(token.userId, token.id) THEN Deny
     ELSE [gate |-> "passed", gateError |-> "", userId |-> token.userId]

\* user.logout(): the call carries the user only, never the credential that
\* was presented; it deactivates the user's last credential or all of them
UserLogout(u, all) ==
  [c \in DOMAIN jwtTokens |->
     IF jwtTokens[c].user = u /\ (all \/ c = lastJwtToken(jwtTokens, u))
       THEN [jwtTokens[c] EXCEPT !.active = FALSE]
       ELSE jwtTokens[c]]

\* what the child server answered to a request
Served(url, header, g, handler, status, error) ==
  /\ req' = [url |-> url, header |-> header, gate |-> g.gate,
             gateError |-> g.gateError, userId |-> g.userId,
             handler |-> handler, status |-> status, error |-> error]
  /\ resp' = NoResp

\* AuthController.logout without its check of request.userId
LogoutUnchecked(url, header, g) ==
  IF g.userId \notin 1..nUsers
    THEN /\ Served(url, header, g, "logout", "error", ErrUserMustBe)
         /\ UNCHANGED <<jwtTokens, revokedBy>>
    ELSE /\ \E all \in BOOLEAN : jwtTokens' = UserLogout(g.userId, all)
         /\ Served(url, header, g, "logout", "ok", "")
         /\ revokedBy' = revokedBy \cup {bearerToken(header).id}

\* AuthController.logout behind the hook; request.userId is what the hook set
Logout(url, header, g) ==
  IF g.userId = 0
    THEN /\ Served(url, header, g, "logout", "error", ErrPermissionDenied)
         /\ UNCHANGED <<jwtTokens, revokedBy>>
  ELSE IF g.userId \notin 1..nUsers
    THEN /\ Served(url, header, g, "logout", "error", ErrUserMustBe)
         /\ UNCHANGED <<jwtTokens, revokedBy>>
    ELSE /\ \E all \in BOOLEAN : jwtTokens' = UserLogout(g.userId, all)
         /\ Served(url, header, g, "logout", "ok", "")
         /\ revokedBy' = revokedBy \cup {bearerToken(header).id}

\* a request to a route of the authenticated child server: the hook, then,
\* unless the hook threw, the handler of the route
Request(url, header) ==
  LET g == Gate(url, header)
  IN /\ IF g.gate = "rejected"
          THEN /\ Served(url, header, g, "", "error", g.gateError)
               /\ UNCHANGED <<jwtTokens, revokedBy>>
        ELSE IF url.route = "logout"
          THEN Logout(url, header, g)
          ELSE /\ Served(url, header, g, url.route, "ok", "")
               /\ UNCHANGED <<jwtTokens, revokedBy>>
     /\ UNCHANGED <<nUsers, userEmails, tempTokens, sent, procs, loginsBy, registered>>

\* the urls and Authorization headers requests are drawn from
Bearer(token) == [present |-> TRUE, parts |-> <<NoJwt, token>>]

SignedTokens ==
  {sign(Secret, [id |-> c, userId |-> u, userEmail |-> "a@x"]) :
     c \in 1..MaxJwtTokens, u \in 1..MaxUsers}

ForgedToken == sign("other", [id |-> 1, userId |-> 1, userEmail |-> "a@x"])

RequestUrls ==
  {[route |-> "logout", id |-> "", query |-> ""],
   [route |-> "logout", id |-> "", query |-> "health"],
   [route |-> "me", id |-> "", query |-> ""],
   [route |-> "list", id |-> "", query |-> "documentation"],
   [route |-> "getOne", id |-> "health", query |-> ""]}

RequestHeaders ==
  {NoHeader,
   [present |-> TRUE, parts |-> <<Garbage>>],
   Bearer(NoJwt), Bearer(Garbage), Bearer(ForgedToken)}
  \cup {Bearer(t) : t \in SignedTokens}

\* the hook does not read the header of an allow-listed url: two headers do
HeadersFor(url) ==
  IF allowListed(url)
    THEN {NoHeader, Bearer(sign(Secret, [id |-> 1, userId |-> 1, userEmail |-> "a@x"]))}
    ELSE RequestHeaders

\* ------------------------------------------------------ user email update
\* a user takes a new main email; the previous one stays as a non-main row
ChangeMainEmail(u, e) ==
  /\ u \in 1..nUsers
  /\ ~checkEmailExist(e)
  /\ NextEmail(e)
  /\ Len(userEmails) + Pending({"reg_save"}) < MaxEmails
  /\ userEmails' = Append([i \in DOMAIN userEmails |->
                             IF userEmails[i].user = u
                               THEN [userEmails[i] EXCEPT !.main = FALSE]
                               ELSE userEmails[i]],
                          [value |-> e, main |-> TRUE, user |-> u])
  /\ UNCHANGED <<nUsers, tempTokens, jwtTokens, sent, procs, resp, req, hist>>

\* ------------------------------------------------------------------ spec
\* the auth handlers, run by the request slots ps
Auth(ps) ==
  \/ \E p \in ps, e \in Emails : RegCheck(p, e)
  \/ \E p \in ps : RegSave(p)
  \/ \E p \in ps : RegLastToken(p)
  \/ \E p \in ps : RegSend(p)
  \/ \E p \in ps, e \in Emails : RtFind(p, e)
  \/ \E p \in ps : RtCreate(p)
  \/ \E p \in ps : RtLastToken(p)
  \/ \E p \in ps : RtSend(p)
  \/ \E p \in ps, e \in Emails, tid \in 1..(MaxTempTokens + 1) : LoginFind(p, e, tid)
  \/ \E p \in ps : LoginSave(p)

\* concurrent auth requests over the store, and users changing their email
Next ==
  \/ Auth(Procs)
  \/ \E u \in 1..MaxUsers, e \in Emails : ChangeMainEmail(u, e)

Spec == Init /\ [][Next]_vars

\* one auth request at a time, and requests to the authenticated child server
NextGate ==
  \/ Auth({1})
  \/ \E url \in RequestUrls : \E header \in HeadersFor(url) : Request(url, header)

SpecGate == Init /\ [][NextGate]_vars

TypeOK ==
  /\ nUsers \in 0..MaxUsers
  /\ Len(userEmails) <= MaxEmails
  /\ Len(tempTokens) <= MaxTempTokens
  /\ Len(jwtTokens) <= MaxJwtTokens
  /\ Len(loginsBy) = Len(tempTokens)

\* ================================================================ claims
\* steps of the handlers, told from the variables they change
LoginSucceeds(p) == procs[p].pc = "login_save" /\ procs'[p].pc = "idle"
LoginProceeds(p) == procs[p].pc = "idle" /\ procs'[p].pc = "login_save"
LoginFails == resp'.op = "login" /\ resp'.status = "error" /\ resp' # resp
RequestServed == req' # NoReq /\ (req' # req \/ jwtTokens' # jwtTokens)
LogoutDone == RequestServed /\ req'.handler = "logout" /\ req'.status = "ok"

\* the users that own an email row with this value
OwnersOf(e) == {userEmails[i].user : i \in {j \in DOMAIN userEmails : userEmails[j].value = e}}

\* a protected url outside the allow-list, and the signed token of a credential
ProtectedUrl == [route |-> "me", id |-> "", query |-> ""]
TokenOf(c) == sign(Secret, [id |-> c, userId |-> jwtTokens[c].user, userEmail |-> "a@x"])

\* C1: one-time use. For every temp token, over any interleaving of the
\* logins that present it, at most one login succeeds.
C1_OneTimeUse == \A t \in DOMAIN loginsBy : loginsBy[t] <= 1

\* C2: uniqueness. For every email at most one register succeeds, and at
\* most one user owns the email value, also when registers run concurrently.
C2_Uniqueness ==
  \A e \in Emails : registered[e] <= 1 /\ Cardinality(OwnersOf(e)) <= 1

\* C3: session independence. A logout made with one credential deactivates
\* that credential only; every other credential keeps its active flag.
C3_SessionIndependence ==
  [][LogoutDone =>
       \A c \in DOMAIN jwtTokens :
         jwtTokens'[c].active =
           (jwtTokens[c].active /\ c # bearerToken(req'.header).id)]_vars

C5_Case(header) ==
  LET t == bearerToken(header)
  IN \/ ~header.present
     \/ t.kind = "empty"
     \/ ~(t.kind = "jwt" /\ t.key = Secret)
     \/ t.userId \notin 1..nUsers
     \/ t.id \notin DOMAIN jwtTokens
     \/ jwtTokens[t.id].user # t.userId
     \/ ~jwtTokens[t.id].active

\* C5: gate completeness. A request subject to the gate that has no
\* Authorization header, no token after "Bearer ", a token whose signature
\* does not verify, a token of a missing user, a token whose credential is
\* not one of that user, or an inactive credential, is rejected with the
\* permission-denied error; userId is set only when none of these holds.
C5_GateComplete ==
  [][RequestServed /\ ~allowListed(req'.url) =>
       /\ C5_Case(req'.header) =>
            req'.gate = "rejected" /\ req'.error = ErrPermissionDenied
       /\ req'.userId # 0 => ~C5_Case(req'.header)]_vars

\* C6: gate coverage. Every route of the child server is a protected route
\* (logout and /user): no handler runs for a request that has not passed the
\* bearer, signature, user and credential checks.
C6_GateCoverage == req.handler # "" => req.gate = "passed"

\* C7: enumeration safety. requestToken answers with the same success
\* acknowledgment whether or not the email is registered, whatever the email
\* collaborator does.
C7_EnumerationSafe == resp.op = "requestToken" => resp.status = "ok"

\* C8: uniform gate failure. Whatever the stage that rejects a request, the
\* error the caller sees is the same: two requests rejected one after the
\* other carry the same error.
C8_UniformFailure ==
  [][RequestServed /\ req.gate = "rejected" /\ req'.gate = "rejected" =>
       req'.error = req.error]_vars

\* C9: login success contract. A login that found an unused token of the
\* presented email, main email of its user, marks exactly that token used,
\* adds exactly one credential, active and owned by that user, and answers
\* with a token signed over the id of this new credential, the user's id and
\* the email.
C9_LoginSuccess ==
  [][\A p \in Procs :
       LoginSucceeds(p) =>
         LET tid == procs[p].tempToken
             u == userEmails[tempTokens[tid].userEmail].user
             new == Len(jwtTokens) + 1
         IN /\ DOMAIN tempTokens' = DOMAIN tempTokens
            /\ tempTokens'[tid].used
            /\ \A t \in DOMAIN tempTokens : t # tid => tempTokens'[t] = tempTokens[t]
            /\ Len(jwtTokens') = new
            /\ \A c \in DOMAIN jwtTokens : jwtTokens'[c] = jwtTokens[c]
            /\ jwtTokens'[new] = [active |-> TRUE, user |-> u]
            /\ resp'.op = "login" /\ resp'.status = "ok"
            /\ resp'.token.kind = "jwt" /\ resp'.token.key = Secret
            /\ resp'.token.id = new
            /\ resp'.token.userId = u
            /\ resp'.token.userEmail = procs[p].email
            /\ userEmails[tempTokens[tid].userEmail].value = procs[p].email]_vars

\* a state after the second login of a user: the answer carries the new
\* credential, not the earlier one
C9_Witness ==
  /\ resp.op = "login" /\ resp.status = "ok"
  /\ resp.token.id = 2
  /\ jwtTokens[1].user = jwtTokens[2].user
  /\ jwtTokens[2].active
  /\ tempTokens[resp.tempToken].used

\* the four failure cases of C10
C10_Unknown(tid) == tid \notin DOMAIN tempTokens
C10_Used(tid) == tid \in DOMAIN tempTokens /\ tempTokens[tid].used
C10_Mismatch(tid, e) ==
  tid \in DOMAIN tempTokens /\ userEmails[tempTokens[tid].userEmail].value # e
C10_NotMain(tid) ==
  tid \in DOMAIN tempTokens /\ ~userEmails[tempTokens[tid].userEmail].main

\* C10: login failure is undifferentiated and has no effect. A login whose
\* token id is unknown, whose token is used, whose email differs from the
\* token's, or whose email is not main, fails; every failing login carries
\* the same error and leaves the tokens and the credentials unchanged.
C10_LoginFailure ==
  [][/\ LoginFails =>
          /\ resp'.error = ErrNoUnusedToken
          /\ tempTokens' = tempTokens /\ jwtTokens' = jwtTokens
     /\ \A p \in Procs :
          LoginProceeds(p) =>
            ~(\/ C10_Unknown(procs'[p].tempToken)
              \/ C10_Used(procs'[p].tempToken)
              \/ C10_Mismatch(procs'[p].tempToken, procs'[p].email)
              \/ C10_NotMain(procs'[p].tempToken))]_vars

\* a login that failed only because the token's email is no longer main
C10_Witness ==
  /\ resp.op = "login" /\ resp.status = "error"
  /\ C10_NotMain(resp.tempToken)
  /\ ~C10_Used(resp.tempToken)
  /\ ~C10_Mismatch(resp.tempToken, resp.email)

\* a send of register or requestToken that the email collaborator rejects
SendFails(p) ==
  /\ procs[p].pc \in {"reg_send", "rt_send"}
  /\ procs'[p].pc = "idle"
  /\ resp'.error = ErrDelivery

\* C11: delivery failure does not undo issuance. When the send of a register
\* or requestToken fails, the store is as it was: the token the call made
\* exists, is unused and bound to the main email of the call, so that the
\* where clause of login accepts it with that email; the user and the email
\* the call works on are still there.
C11_DeliveryFailureKeepsToken ==
  [][\A p \in Procs :
       SendFails(p) =>
         LET t == procs[p].created
         IN /\ <<nUsers, userEmails, tempTokens, jwtTokens>>' =
                 <<nUsers, userEmails, tempTokens, jwtTokens>>
            /\ t \in DOMAIN tempTokens'
            /\ ~tempTokens'[t].used
            /\ tempTokens'[t].userEmail = procs[p].userEmail
            /\ userEmails'[procs[p].userEmail] =
                 [value |-> procs[p].email, main |-> TRUE, user |-> procs[p].user]
            /\ procs[p].user \in 1..nUsers']_vars

\* a register whose send failed: its user, email and token are in the store
C11_Witness ==
  /\ resp.op = "register" /\ resp.error = ErrDelivery
  /\ \E t \in DOMAIN tempTokens :
       /\ ~tempTokens[t].used
       /\ userEmails[tempTokens[t].userEmail].value = resp.email
       /\ userEmails[tempTokens[t].userEmail].main
  /\ sent = <<>>

\* a send of register or requestToken that the email collaborator accepts
SendDelivers(p) ==
  /\ procs[p].pc \in {"reg_send", "rt_send"}
  /\ procs'[p].pc = "idle"
  /\ sent' # sent

\* C12: each issued token is mailed at most once and by the call that issued
\* it. The token id in the message a call sends is the id of the token this
\* call created, and no token id is in two messages.
C12_SentByIssuer ==
  [][\A p \in Procs :
       SendDelivers(p) =>
         /\ sent'[Len(sent')].token = procs[p].created
         /\ \A i \in DOMAIN sent : sent[i].token # sent'[Len(sent')].token]_vars

\* a requestToken that goes on to issue a token
RtProceeds(p) == procs[p].pc = "idle" /\ procs'[p].pc = "rt_create"

\* a requestToken answered by its first step
RtAnswersAtOnce == resp'.op = "requestToken" /\ resp' # resp /\ procs' = procs

\* some user has e as main email
HasMainEmail(e) ==
  \E i \in DOMAIN userEmails : userEmails[i].value = e /\ userEmails[i].main

\* C13: requestToken on an unregistered email is a no-op. A requestToken(e)
\* goes on to issue a token only when some user has e as main email;
\* otherwise its first step answers with the success acknowledgment, sends no
\* message, creates no token and leaves users, emails, tokens and session
\* credentials as they were.
C13_UnregisteredNoOp ==
  [][/\ \A p \in Procs : RtProceeds(p) => HasMainEmail(procs'[p].email)
     /\ RtAnswersAtOnce =>
          /\ ~HasMainEmail(resp'.email)
          /\ resp'.status = "ok" /\ resp'.error = ""
          /\ sent' = sent
          /\ <<nUsers, userEmails, tempTokens, jwtTokens>>' =
               <<nUsers, userEmails, tempTokens, jwtTokens>>]_vars

\* requestToken answered for an email that is in the store but is no longer
\* the main email of any user
C13_Witness ==
  /\ resp.op = "requestToken" /\ resp.status = "ok"
  /\ ~HasMainEmail(resp.email)
  /\ \E i \in DOMAIN userEmails : userEmails[i].value = resp.email
  /\ \A p \in Procs : procs[p].pc = "idle"

\* the steps of a register call
RegProceeds(p) == procs[p].pc = "idle" /\ procs'[p].pc = "reg_save"
RegSaves(p) == procs[p].pc = "reg_save" /\ procs'[p].pc = "reg_token"
RegReads(p) == procs[p].pc = "reg_token" /\ procs'[p].pc # "reg_token"
RegDelivers(p) == procs[p].pc = "reg_send" /\ procs'[p].pc = "idle" /\ resp'.status = "ok"
RegRejected == resp'.op = "register" /\ resp'.error = ErrEmailExists /\ resp' # resp

\* C14: register side effects. The steps of a register(e) that succeeds add
\* exactly one user, one email row with value e marked main for that user and
\* one unused token bound to that row, and send exactly one message, to e; a
\* register(e) rejected because e exists adds no user, email or token and
\* sends no message.
C14_RegisterEffects ==
  [][/\ \A p \in Procs :
          /\ RegProceeds(p) =>
               /\ \A i \in DOMAIN userEmails : userEmails[i].value # procs'[p].email
               /\ UNCHANGED <<nUsers, userEmails, tempTokens, jwtTokens, sent>>
          /\ RegSaves(p) =>
               /\ nUsers' = nUsers + 1
               /\ userEmails' = Append(userEmails, [value |-> procs[p].email, main |-> TRUE,
                                                    user |-> nUsers + 1])
               /\ tempTokens' = Append(tempTokens, [used |-> FALSE,
                                                    userEmail |-> Len(userEmails) + 1])
               /\ UNCHANGED <<jwtTokens, sent>>
          /\ RegReads(p) => UNCHANGED <<nUsers, userEmails, tempTokens, jwtTokens, sent>>
          /\ RegDelivers(p) =>
               /\ Len(sent') = Len(sent) + 1
               /\ SubSeq(sent', 1, Len(sent)) = sent
               /\ sent'[Len(sent')].to = procs[p].email
               /\ resp'.op = "register" /\ resp'.email = procs[p].email
               /\ UNCHANGED <<nUsers, userEmails, tempTokens, jwtTokens>>
     /\ RegRejected =>
          /\ \E i \in DOMAIN userEmails : userEmails[i].value = resp'.email
          /\ procs' = procs
          /\ UNCHANGED <<nUsers, userEmails, tempTokens, jwtTokens, sent>>]_vars

\* a register that succeeded on an empty store: one user, one main email,
\* one unused token, one message
C14_Witness ==
  /\ resp.op = "register" /\ resp.status = "ok"
  /\ nUsers = 1
  /\ userEmails = <<[value |-> resp.email, main |-> TRUE, user |-> 1]>>
  /\ tempTokens = <<[used |-> FALSE, userEmail |-> 1]>>
  /\ sent = <<[token |-> 1, to |-> resp.email]>>

\* C15: logout without an authenticated context is refused and changes
\* nothing. When the logout handler runs on a request whose userId the gate
\* did not set, it fails with the permission-denied error and every session
\* credential keeps its active flag.
C15_LogoutNeedsContext ==
  [][RequestServed /\ req'.handler = "logout" /\ req'.userId = 0 =>
       /\ req'.status = "error"
       /\ req'.error = ErrPermissionDenied
       /\ jwtTokens' = jwtTokens
       /\ revokedBy' = revokedBy]_vars

\* the logout handler refused a request that came round the gate with the
\* token of a live credential
C15_Witness ==
  /\ req.handler = "logout" /\ req.userId = 0
  /\ req.error = ErrPermissionDenied
  /\ req.header.present
  /\ LET token == req.header.parts[2]
     IN /\ token.id \in DOMAIN jwtTokens
        /\ jwtTokens[token.id].active
        /\ jwtTokens[token.id].user = token.userId

\* the stores the run register(e); login(e, T); request; logout; request
\* goes through when it starts on the empty store
EmptyStore ==
  nUsers = 0 /\ userEmails = <<>> /\ tempTokens = <<>> /\ jwtTokens = <<>> /\ sent = <<>>

RunUser(used) ==
  /\ nUsers = 1
  /\ Len(userEmails) = 1 /\ userEmails[1].main /\ userEmails[1].user = 1
  /\ tempTokens = <<[used |-> used, userEmail |-> 1]>>
  /\ sent = <<[token |-> 1, to |-> userEmails[1].value]>>

AfterRegister == RunUser(FALSE) /\ jwtTokens = <<>>
AfterLogin == RunUser(TRUE) /\ jwtTokens = <<[active |-> TRUE, user |-> 1]>>
AfterLogout == RunUser(TRUE) /\ jwtTokens = <<[active |-> FALSE, user |-> 1]>>

\* the signed token the login of the run returns
RunCredential ==
  [kind |-> "jwt", id |-> 1, userId |-> 1, userEmail |-> userEmails[1].value,
   key |-> Secret]

RunHeader == [present |-> TRUE, parts |-> <<NoJwt, RunCredential>>]

\* a request of the run: it presents the credential of the run
RunRequest(route) ==
  /\ RequestServed
  /\ req'.header = RunHeader
  /\ req'.url = [route |-> route, id |-> "", query |-> ""]

\* C16: end-to-end lifecycle. In the run register(e); login(e, T) with the
\* token T that register sent; protected request with the returned credential
\* C; logout with C; protected request with C again: register and login
\* succeed, the first request passes the gate with the userId of the user that
\* register created, the logout succeeds, and the second request is rejected
\* with the permission-denied error.
C16_Lifecycle ==
  [][/\ EmptyStore => ~RegRejected
     /\ \A p \in Procs :
          /\ RegDelivers(p) /\ nUsers = 1 /\ Len(tempTokens) = 1 /\ jwtTokens = <<>>
               /\ sent = <<>> =>
               /\ resp'.op = "register" /\ resp'.status = "ok"
               /\ AfterRegister'
               /\ userEmails'[1].value = procs[p].email
          /\ AfterRegister /\ LoginSucceeds(p) =>
               /\ procs[p].email = sent[1].to /\ procs[p].tempToken = sent[1].token
               /\ resp'.op = "login" /\ resp'.status = "ok"
               /\ resp'.token = RunCredential
               /\ AfterLogin'
     /\ AfterRegister /\ LoginFails =>
          ~(resp'.email = sent[1].to /\ resp'.tempToken = sent[1].token)
     /\ AfterLogin /\ RunRequest("me") =>
          /\ req'.gate = "passed" /\ req'.userId = userEmails[1].user
          /\ req'.handler = "me" /\ req'.status = "ok"
          /\ AfterLogin'
     /\ AfterLogin /\ RunRequest("logout") =>
          /\ req'.gate = "passed" /\ req'.handler = "logout" /\ req'.status = "ok"
          /\ AfterLogout'
     /\ AfterLogout /\ RunRequest("me") =>
          /\ req'.gate = "rejected" /\ req'.handler = ""
          /\ req'.status = "error" /\ req'.error = ErrPermissionDenied
          /\ AfterLogout']_vars

\* the end of the run: the credential of the only login was presented again
\* after the logout and was turned down
C16_Witness ==
  /\ AfterLogout
  /\ registered[userEmails[1].value] = 1
  /\ loginsBy = <<1>>
  /\ revokedBy = {1}
  /\ req.header = RunHeader
  /\ req.url = [route |-> "me", id |-> "", query |-> ""]
  /\ req.error = ErrPermissionDenied

\* C17: token consumption is irreversible. No step of register, requestToken,
\* login or logout removes a token or sets a used flag back to false; a token
\* is created unused, and the only step that sets used from false to true is
\* that of a successful login presenting this token.
C17_ConsumptionIrreversible ==
  [][/\ Len(tempTokens') >= Len(tempTokens)
     /\ \A t \in DOMAIN tempTokens' :
          IF t \in DOMAIN tempTokens
            THEN /\ tempTokens[t].used => tempTokens'[t].used
                 /\ tempTokens'[t].userEmail = tempTokens[t].userEmail
                 /\ ~tempTokens[t].used /\ tempTokens'[t].used =>
                      \E p \in Procs :
                        /\ LoginSucceeds(p)
                        /\ procs[p].tempToken = t
                        /\ resp'.op = "login" /\ resp'.status = "ok"
                        /\ resp'.tempToken = t
            ELSE ~tempTokens'[t].used]_vars

\* a token used by a login is still used after a later register or
\* requestToken was answered
C17_Witness ==
  /\ resp.op \in {"register", "requestToken"} /\ resp.status = "ok"
  /\ \E t \in DOMAIN tempTokens : tempTokens[t].used /\ loginsBy[t] = 1
  /\ \E t \in DOMAIN tempTokens : ~tempTokens[t].used

\* the step of requestToken that issues the token
RtCreates(p) == procs[p].pc = "rt_create" /\ procs'[p].pc = "rt_token"

\* C18: outstanding tokens coexist. requestToken for a registered email adds
\* one unused token on that email and leaves every earlier token as it was;
\* login is never refused for an unused token of the presented main email,
\* however many there are, and a login that succeeds marks the presented
\* token only, so the other tokens stay unused.
C18_TokensCoexist ==
  [][/\ \A p \in Procs :
          /\ RtCreates(p) =>
               /\ Len(tempTokens') = Len(tempTokens) + 1
               /\ SubSeq(tempTokens', 1, Len(tempTokens)) = tempTokens
               /\ ~tempTokens'[Len(tempTokens')].used
               /\ userEmails[tempTokens'[Len(tempTokens')].userEmail].value = procs[p].email
          /\ LoginSucceeds(p) =>
               /\ resp'.op = "login" /\ resp'.status = "ok"
               /\ tempTokens'[procs[p].tempToken].used
               /\ \A t \in DOMAIN tempTokens :
                    t # procs[p].tempToken => tempTokens'[t] = tempTokens[t]
     /\ LoginFails =>
          ~ /\ resp'.tempToken \in DOMAIN tempTokens
            /\ ~tempTokens[resp'.tempToken].used
            /\ userEmails[tempTokens[resp'.tempToken].userEmail].value = resp'.email
            /\ userEmails[tempTokens[resp'.tempToken].userEmail].main]_vars

\* a login succeeded with the older of two tokens of one main email; the
\* newer one is still unused
C18_Witness ==
  /\ resp.op = "login" /\ resp.status = "ok"
  /\ resp.tempToken \in DOMAIN tempTokens
  /\ tempTokens[resp.tempToken].used
  /\ \E t \in DOMAIN tempTokens :
       /\ t > resp.tempToken
       /\ tempTokens[t].userEmail = tempTokens[resp.tempToken].userEmail
       /\ ~tempTokens[t].used
       /\ userEmails[tempTokens[t].userEmail].value = resp.email
       /\ userEmails[tempTokens[t].userEmail].main

\* the hook lets the signed token through on a protected route
PassesGate(token) ==
  Gate(ProtectedUrl, [present |-> TRUE, parts |-> <<NoJwt, token>>]) =
    [gate |-> "passed", gateError |-> "", userId |-> token.userId]

\* a login is in flight for the same user with another token
ConcurrentLogin(p, q) ==
  /\ q # p
  /\ procs[p].pc = "login_save" /\ procs[q].pc = "login_save"
  /\ procs[q].user = procs[p].user
  /\ procs[q].tempToken # procs[p].tempToken

C20_AnnotationSound ==
  [][RequestServed =>
       /\ req'.handler # "" /\ req'.userId # 0 =>
            /\ req'.gate = "passed"
            /\ req'.header.present /\ Len(req'.header.parts) = 2
            /\ LET token == req'.header.parts[2]
               IN /\ token.kind = "jwt" /\ token.key = Secret
                  /\ token.userId = req'.userId
                  /\ req'.userId \in 1..nUsers
                  /\ token.id \in DOMAIN jwtTokens
                  /\ jwtTokens[token.id].active
                  /\ jwtTokens[token.id].user = req'.userId
       /\ req'.gate = "skipped" =>
            /\ req'.userId = 0
            /\ req'.handler = req'.url.route
            /\ req'.url.route = "logout" =>
                 /\ req'.status = "error" /\ req'.error = ErrPermissionDenied
                 /\ jwtTokens' = jwtTokens /\ revokedBy' = revokedBy]_vars

\* a protected handler ran for the second of two users, on the token of a
\* credential of that user
C20_Witness ==
  /\ req.gate = "passed" /\ req.handler = "me" /\ req.status = "ok"
  /\ req.userId = 2
  /\ LET token == req.header.parts[2]
     IN /\ token.userId = 2
        /\ jwtTokens[token.id] = [active |-> TRUE, user |-> 2]

====
